---- MODULE Spec2Model ----
(***************************************************************************)
(* Model of the Ragnarok drop simulator API (src/main.py).                 *)
(*                                                                         *)
(* Numbers.  The program computes with Python floats.  The model uses      *)
(* exact fixed-point integers: a bonus (B_general, B_final, a table value, *)
(* a caller-supplied modifier) is an integer number of percent, and every  *)
(* drop percentage (p_base, p_inter, p_final) is an integer number of      *)
(* 1/Scale percent.  For integer percent inputs the two multiplications    *)
(* p * (1 + B / 100.0) are exact in this representation.                   *)
(*                                                                         *)
(* Dicts.  A Python dict whose iteration order never reaches a response is *)
(* a TLA+ function on its key set.  A dict whose iteration order builds a  *)
(* response list (contents, levels, a monster table's drops) or decides a  *)
(* result (the mastery tables, scanned with break) is a sequence of        *)
(* [k |-> key, v |-> value] entries in insertion order.                    *)
(***************************************************************************)
EXTENDS Integers, Sequences, FiniteSets, TLC

VARIABLES
    DATA,           \* the catalog (module global)
    BIG_CONS,       \* static table (module global)
    GENERAL_CONS,   \* static table (module global)
    FINAL_CONS,     \* static table (module global)
    pc,             \* "idle", or "done" while a response is being returned
    request,        \* the request being answered
    response,       \* its response
    served          \* history: some response has been delivered before

vars == <<DATA, BIG_CONS, GENERAL_CONS, FINAL_CONS, pc, request, response, served>>

\* ------------------------------------------------------------------------
\* Bounds of the model
\* ------------------------------------------------------------------------

\* Largest number of tokens outside the big-consumable group in one selection.
MaxOther == 2

\* ------------------------------------------------------------------------
\* Python dict and list helpers
\* ------------------------------------------------------------------------

EmptyDict == [x \in {} |-> 0]

\* d.get(k, default)
Get(d, k, default) == IF k \in DOMAIN d THEN d[k] ELSE default

\* d[k] = v
Put(d, k, v) == [x \in (DOMAIN d) \cup {k} |-> IF x = k THEN v ELSE d[x]]

\* del d[k]
Del(d, k) == [x \in (DOMAIN d) \ {k} |-> d[x]]

RECURSIVE SumOver(_, _)
SumOver(d, keys) ==
    IF keys = {} THEN 0
    ELSE LET k == CHOOSE x \in keys : TRUE
         IN  d[k] + SumOver(d, keys \ {k})

\* sum(d.values())
SumValues(d) == SumOver(d, DOMAIN d)

\* max(values, default=0.0)
MaxOrZero(S) == IF S = {} THEN 0 ELSE CHOOSE m \in S : \A x \in S : x <= m

\* min(a, b)
Min(a, b) == IF a <= b THEN a ELSE b

\* max(a, b)
Max(a, b) == IF a >= b THEN a ELSE b

\* Insertion-ordered dict: keys in order, membership, lookup.
ODKeys(od) == [i \in 1..Len(od) |-> od[i].k]
ODHas(od, k) == \E i \in 1..Len(od) : od[i].k = k
ODGet(od, k) == od[CHOOSE i \in 1..Len(od) : od[i].k = k].v

\* The elements of a list, as set(list) builds them.
ToSet(seq) == {seq[i] : i \in 1..Len(seq)}

\* ------------------------------------------------------------------------
\* Static tables (module globals of the program; mutable Python dicts)
\* ------------------------------------------------------------------------

BIG_CONS0 ==
    [calice |-> 265, calice2 |-> 240, chicle |-> 200, chiclete |-> 100]

GENERAL_CONS0 ==
    [lata |-> 20, revitalizadora |-> 20, drop_pot |-> 25,
     fusion |-> 25, doador |-> 35, doador_rmt |-> 35]

FINAL_CONS0 ==
    [black |-> 6, ativador |-> 5, carnavalesco |-> 2, champs |-> 6, amantes |-> 4]

\* Fixed-point unit of every drop percentage: 1 percent = Scale units.
Scale == 100 * 100

\* A whole number of percent as a drop percentage.
Pct(n) == n * Scale

\* ------------------------------------------------------------------------
\* The catalog loaded from data/drops.json at start-up
\* ------------------------------------------------------------------------

\* A level's "drops": a list of item ids (normal content) or an ordered dict
\* item id -> (monster id -> base percent) (monster_table content).
DropList(ids) == [kind |-> "list", ids |-> ids]
DropTable(od) == [kind |-> "dict", od |-> od]

\* One catalog the process can have loaded.  Optional keys are left out of
\* some entries so that every .get(key, default) of the program is exercised.
DATA0 ==
    [contents |-> <<
        [k |-> "dominio",
         v |-> [name |-> "Dominio", type |-> "monster_table",
                levels |-> <<
                    [k |-> "2",
                     v |-> [name |-> "Salao",
                            monsters |-> <<"poring">>,
                            drops |-> DropTable(<<
                                [k |-> "ring", v |-> [poring |-> 90]]>>)]],
                    [k |-> "10",
                     v |-> [monsters |-> <<"poring">>,
                            drops |-> DropTable(<<
                                [k |-> "dust", v |-> EmptyDict]>>)]],
                    [k |-> "1",
                     v |-> [name |-> "Entrada",
                            monsters |-> <<"poring", "red_plant">>,
                            drops |-> DropTable(<<
                                [k |-> "eye",
                                 v |-> [poring |-> 10, red_plant |-> 95]],
                                [k |-> "ghost", v |-> [poring |-> 5]],
                                [k |-> "crown", v |-> [poring |-> 100]]>>)]]
                >>]],
        [k |-> "torre",
         v |-> [type |-> "monster_table",
                levels |-> <<
                    [k |-> "1",
                     v |-> [name |-> "Base",
                            monsters |-> <<"red_plant">>,
                            drops |-> DropTable(<<
                                [k |-> "gem", v |-> [red_plant |-> 50]],
                                [k |-> "dust", v |-> [red_plant |-> 0]]>>)]]
                >>]],
        [k |-> "campo",
         v |-> [name |-> "Campo",
                levels |-> <<
                    [k |-> "1",
                     v |-> [name |-> "Planicie",
                            drops |-> DropList(
                                <<"eye", "gem", "ghost", "crown", "dust",
                                  "flower">>)]]
                >>]]
     >>,
     items |->
        [eye    |-> [name |-> "Olho", base_drop_percent |-> 10],
         gem    |-> [name |-> "Gema", base_drop_percent |-> 95],
         crown  |-> [base_drop_percent |-> 100],
         ring   |-> [name |-> "Anel", base_drop_percent |-> 90],
         dust   |-> [name |-> "Poeira"],
         flower |-> [name |-> "Florzinha", base_drop_percent |-> 2,
                     is_florzinha |-> TRUE]]]

\* int(level_id) on the level ids of the catalog.
IntOfLevel == [x \in {"1", "2", "10"} |->
                 IF x = "1" THEN 1 ELSE IF x = "2" THEN 2 ELSE 10]

\* monster_id.replace("_", " ").title() on the monster ids of the catalog.
TitleOfMonster == [x \in {"poring", "red_plant"} |->
                     IF x = "poring" THEN "Poring" ELSE "Red Plant"]

\* The ids a "drops" value yields when iterated (list elements, or dict keys).
IterDrops(drops) == IF drops.kind = "list" THEN drops.ids ELSE ODKeys(drops.od)

\* ------------------------------------------------------------------------
\* Responses
\* ------------------------------------------------------------------------

NoRequest == [endpoint |-> "none"]
NoResponse == [status |-> 0]

\* raise HTTPException(status_code=..., detail=...)
HTTPError(code, detail) == [status |-> code, detail |-> detail]

\* An exception no handler catches: the framework answers 500.
Unhandled(exc) == [status |-> 500, exception |-> exc]

\* ------------------------------------------------------------------------
\* Modifier resolver (the same statements in calculate_all_drops,
\* calculate_monster_table and drop_calculate)
\* ------------------------------------------------------------------------

\* The module globals a handler reads.
Env == [DATA |-> DATA, BIG_CONS |-> BIG_CONS,
        GENERAL_CONS |-> GENERAL_CONS, FINAL_CONS |-> FINAL_CONS]

\* best_big as the sum of the selected big consumables instead of their max.
best_big_summed(env, selected) ==
    SumOver(env.BIG_CONS, selected \cap DOMAIN env.BIG_CONS)

\* max((BIG_CONS[c] for c in selected if c in BIG_CONS), default=0.0)
best_big(env, selected) ==
    MaxOrZero({env.BIG_CONS[c] : c \in selected \cap DOMAIN env.BIG_CONS})

\* if best_big > 0: general_mods["consumable_big"] = best_big
AddBig(env, general_mods, selected) ==
    IF best_big(env, selected) > 0
    THEN Put(general_mods, "consumable_big", best_big(env, selected))
    ELSE general_mods

used_calice(selected) == "calice" \in selected
used_calice2(selected) == "calice2" \in selected
\* used_big with calice2 forgotten.
used_big_without_calice2(selected) == used_calice(selected)

used_big(selected) == used_calice(selected) \/ used_calice2(selected)

\* One iteration of "for key, val in GENERAL_CONS.items()".
GeneralStep(general_mods, selected, key, val) ==
    IF key \notin selected THEN general_mods
    ELSE IF key \in {"lata", "revitalizadora"}
         THEN IF ~used_big(selected) THEN Put(general_mods, key, val)
              ELSE general_mods
    ELSE IF key = "drop_pot"
         THEN IF ~used_calice(selected) THEN Put(general_mods, key, val)
              ELSE general_mods
    ELSE Put(general_mods, key, val)

\* The loop over GENERAL_CONS.items(); the keys are distinct and each
\* iteration writes only its own key, so the order does not matter.
RECURSIVE GeneralLoop(_, _, _, _)
GeneralLoop(table, keys, general_mods, selected) ==
    IF keys = {} THEN general_mods
    ELSE LET key == CHOOSE x \in keys : TRUE
         IN  GeneralLoop(table, keys \ {key},
                         GeneralStep(general_mods, selected, key, table[key]),
                         selected)

AddGeneral(env, general_mods, selected) ==
    GeneralLoop(env.GENERAL_CONS, DOMAIN env.GENERAL_CONS, general_mods, selected)

\* for key, val in FINAL_CONS.items():
\*     if key in selected: final_mods[f"final_{key}"] = val
RECURSIVE FinalLoop(_, _, _, _)
FinalLoop(table, keys, final_mods, selected) ==
    IF keys = {} THEN final_mods
    ELSE LET key == CHOOSE x \in keys : TRUE
         IN  FinalLoop(table, keys \ {key},
                       IF key \in selected
                       THEN Put(final_mods, "final_" \o key, table[key])
                       ELSE final_mods,
                       selected)

AddFinal(env, final_mods, selected) ==
    FinalLoop(env.FINAL_CONS, DOMAIN env.FINAL_CONS, final_mods, selected)

\* GateReputation with the removal left out.
GateReputation_never_removes(content_id, general_mods) == general_mods

\* if req.content_id == "dominio": pass
\* else: if "dominio_reputation" in general_mods: del general_mods[...]
GateReputation(content_id, general_mods) ==
    IF content_id = "dominio" THEN general_mods
    ELSE IF "dominio_reputation" \in DOMAIN general_mods
         THEN Del(general_mods, "dominio_reputation")
         ELSE general_mods

\* The general and final aggregates of a batch request.
BatchGeneralMods(env, req) ==
    GateReputation(req.content_id,
        AddGeneral(env,
                   AddBig(env, req.general_mods, ToSet(req.consumables)),
                   ToSet(req.consumables)))

BatchFinalMods(env, req) ==
    AddFinal(env, req.final_mods, ToSet(req.consumables))

\* ------------------------------------------------------------------------
\* Probability engine
\* ------------------------------------------------------------------------

\* p_base * (1 + B_general / 100.0)
Inter(p_base, B_general) == (p_base * (100 + B_general)) \div 100

\* p_inter * (1 + B_final / 100.0)
Final(p_inter, B_final) == (p_inter * (100 + B_final)) \div 100

apply_caps(p_base_percent, p_final_percent) ==
    IF p_base_percent <= Pct(90) THEN Min(p_final_percent, Pct(90))
    ELSE IF p_base_percent = Pct(100) THEN Pct(100)
    ELSE p_final_percent

\* ------------------------------------------------------------------------
\* POST /drop/calculate-all
\* ------------------------------------------------------------------------

\* One entry of the "drops" list of calculate_all_drops.
AllDropsEntry(items, item_id, B_general, B_final) ==
    LET item == items[item_id]
        p_base == Pct(Get(item, "base_drop_percent", 0))
        p_inter == Inter(p_base, B_general)
        p_final == Final(p_inter, B_final)
    IN  [item_id |-> item_id,
         item_name |-> Get(item, "name", item_id),
         base_drop_percent |-> p_base,
         B_general_percent |-> B_general,
         B_final_percent |-> B_final,
         p_inter_percent |-> p_inter,
         p_final_percent |-> apply_caps(p_base, p_final),
         is_florzinha |-> Get(item, "is_florzinha", FALSE)]

RECURSIVE AllDropsLoop(_, _, _, _)
AllDropsLoop(items, drop_ids, B_general, B_final) ==
    IF drop_ids = <<>> THEN <<>>
    ELSE LET rest == AllDropsLoop(items, Tail(drop_ids), B_general, B_final)
         IN  IF Head(drop_ids) \in DOMAIN items
             THEN <<AllDropsEntry(items, Head(drop_ids), B_general, B_final)>>
                  \o rest
             ELSE rest

calculate_all_drops(env, req) ==
    LET contents == env.DATA.contents IN
    IF ~ODHas(contents, req.content_id)
    THEN HTTPError(404, "Content not found")
    ELSE
    LET levels == Get(ODGet(contents, req.content_id), "levels", <<>>) IN
    IF ~ODHas(levels, req.level_id)
    THEN HTTPError(404, "Level not found")
    ELSE
    LET level == ODGet(levels, req.level_id)
        drop_ids == IterDrops(Get(level, "drops", DropList(<<>>)))
        B_general == SumValues(BatchGeneralMods(env, req))
        B_final == SumValues(BatchFinalMods(env, req))
    IN  [status |-> 200,
         content_id |-> req.content_id,
         level_id |-> req.level_id,
         B_general_percent |-> B_general,
         B_final_percent |-> B_final,
         drops |-> AllDropsLoop(env.DATA.items, drop_ids, B_general, B_final)]

\* ------------------------------------------------------------------------
\* POST /drop/calculate-monster-table
\* ------------------------------------------------------------------------

\* calculated_rates of one item: monster id -> base and capped final percent.
CalculatedRates(monsters, monster_rates, B_general, B_final) ==
    [m \in ToSet(monsters) |->
        LET p_base == Pct(Get(monster_rates, m, 0))
            p_inter == Inter(p_base, B_general)
            p_final == Final(p_inter, B_final)
        IN  [base |-> p_base, final |-> apply_caps(p_base, p_final)]]

RECURSIVE MonsterDropsLoop(_, _, _, _, _)
MonsterDropsLoop(items, drops_data, monsters, B_general, B_final) ==
    IF drops_data = <<>> THEN <<>>
    ELSE LET item_id == Head(drops_data).k
             rest == MonsterDropsLoop(items, Tail(drops_data), monsters,
                                      B_general, B_final)
         IN  IF item_id \in DOMAIN items
             THEN <<[item_id |-> item_id,
                     item_name |-> Get(items[item_id], "name", item_id),
                     calculated_rates |->
                         CalculatedRates(monsters, Head(drops_data).v,
                                         B_general, B_final)]>> \o rest
             ELSE rest

\* [{"monster_id": m, "name": m.replace("_", " ").title()} for m in monsters]
MonsterInfo(monsters) ==
    [i \in 1..Len(monsters) |->
        [monster_id |-> monsters[i], name |-> TitleOfMonster[monsters[i]]]]

calculate_monster_table(env, req) ==
    LET contents == env.DATA.contents IN
    IF ~ODHas(contents, req.content_id)
    THEN HTTPError(404, "Content not found")
    ELSE
    LET content == ODGet(contents, req.content_id) IN
    IF Get(content, "type", "None") # "monster_table"
    THEN HTTPError(400, "This content type doesn't support monster tables")
    ELSE
    LET levels == Get(content, "levels", <<>>) IN
    IF ~ODHas(levels, req.level_id)
    THEN HTTPError(404, "Level not found")
    ELSE
    LET level == ODGet(levels, req.level_id)
        monsters == Get(level, "monsters", <<>>)
        drops_data == Get(level, "drops", DropTable(<<>>))
        B_general == SumValues(BatchGeneralMods(env, req))
        B_final == SumValues(BatchFinalMods(env, req))
    IN  IF drops_data.kind # "dict"
        THEN Unhandled("AttributeError")   \* a list has no .items()
        ELSE [status |-> 200,
              content_id |-> req.content_id,
              level_id |-> req.level_id,
              B_general_percent |-> B_general,
              B_final_percent |-> B_final,
              monsters |-> MonsterInfo(monsters),
              drops |-> MonsterDropsLoop(env.DATA.items, drops_data.od,
                                         monsters, B_general, B_final)]

\* ------------------------------------------------------------------------
\* POST /drop/calculate
\* ------------------------------------------------------------------------

\* The fields class Scenario declares.
ScenarioFields == {"general_mods", "final_mods", "consumables"}

\* Parsing a request body into a Scenario keeps the declared fields and
\* ignores every other key of the body.
ParseScenario(body) ==
    [f \in ScenarioFields \cap DOMAIN body |-> body[f]]

\* Whether reading s.<name> succeeds (otherwise AttributeError).
HasAttr(s, name) == name \in DOMAIN s

ADV_MASTERY ==
    <<[k |-> "adv_1", v |-> 1], [k |-> "adv_2", v |-> 3],
      [k |-> "adv_3", v |-> 5], [k |-> "adv_4", v |-> 8]>>

BIRTH_MASTERY ==
    <<[k |-> "birth_1", v |-> 1], [k |-> "birth_2", v |-> 2],
      [k |-> "birth_3", v |-> 3], [k |-> "birth_4", v |-> 5]>>

REBORN_MASTERY ==
    <<[k |-> "reborn_1", v |-> 1], [k |-> "reborn_2", v |-> 2],
      [k |-> "reborn_3", v |-> 3], [k |-> "reborn_4", v |-> 5],
      [k |-> "reborn_5", v |-> 8]>>

\* for key, val in TABLE.items():
\*     if key in selected: final_mods[name] = val; break
RECURSIVE MasteryLoop(_, _, _, _)
MasteryLoop(table, final_mods, selected, name) ==
    IF table = <<>> THEN final_mods
    ELSE IF Head(table).k \in selected
         THEN Put(final_mods, name, Head(table).v)
         ELSE MasteryLoop(Tail(table), final_mods, selected, name)

\* s.general_mods when the consumable loops of drop_calculate are done.
ScenarioGeneralMods(env, s) ==
    AddGeneral(env, AddBig(env, s.general_mods, ToSet(s.consumables)),
               ToSet(s.consumables))

\* s.final_mods when the consumable and mastery loops are done.
ScenarioFinalMods(env, s) ==
    LET selected == ToSet(s.consumables)
        f0 == AddFinal(env, s.final_mods, selected)
        f1 == MasteryLoop(ADV_MASTERY, f0, selected, "adv_mastery")
        f2 == MasteryLoop(BIRTH_MASTERY, f1, selected, "birth_mastery")
    IN  MasteryLoop(REBORN_MASTERY, f2, selected, "reborn_mastery")

\* The optional statistics: None, or a value.
None == [defined |-> FALSE]
Some(x) == [defined |-> TRUE, value |-> x]

\* The body of drop_calculate after the item lookup.  Fractions are kept as
\* closed forms over the fixed-point p_final (p_final_frac = p_final / Pct(100)).
CalculateBody(env, s, item) ==
    LET p_base == Pct(Get(item, "base_drop_percent", 0))
        B_general == SumValues(ScenarioGeneralMods(env, s))
        B_final == SumValues(ScenarioFinalMods(env, s))
        p_inter == Inter(p_base, B_general)
        p_final == apply_caps(p_base, Final(p_inter, B_final))
        base_flor == Pct(2)
        flor_final == apply_caps(base_flor,
                                 Final(Inter(base_flor, B_general), B_final))
        num_kills == Max(1, s.num_kills)
    IN  IF p_final > 0 /\ Pct(100) - p_final <= 0
        THEN Unhandled("ValueError")    \* math.log(1 - p_final_frac), 1 - p <= 0
        ELSE [status |-> 200,
              item_id |-> s.item_id,
              p_base_percent |-> p_base,
              B_general_percent |-> B_general,
              B_final_percent |-> B_final,
              p_inter_percent |-> p_inter,
              p_final_percent |-> p_final,
              drop_florzinha_percent |-> flor_final,
              \* 1 - (1 - p) ** N, as the pair (1 - p in fixed point, N)
              prob_at_least_one_in_N |->
                  [one_minus |-> Pct(100) - p_final, power |-> num_kills],
              \* N * p, in fixed point
              expected_drops_in_N |-> num_kills * p_final,
              \* 1 / p, as numerator and denominator
              mean_kills_for_one |->
                  IF p_final > 0
                  THEN Some([num |-> Pct(100), den |-> p_final])
                  ELSE None,
              \* log(0.5) / log(1 - p), as the argument of the second log
              median_kills_for_50pct |->
                  IF p_final > 0
                  THEN Some([log_half_over_log_of |-> Pct(100) - p_final])
                  ELSE None,
              num_kills |-> num_kills]

drop_calculate(env, s) ==
    IF ~HasAttr(s, "item_id") THEN Unhandled("AttributeError")
    ELSE
    LET items == env.DATA.items IN
    IF s.item_id \notin DOMAIN items \/ items[s.item_id] = EmptyDict
    THEN HTTPError(404, "Item not found")
    ELSE IF ~HasAttr(s, "num_kills") THEN Unhandled("AttributeError")
    ELSE CalculateBody(env, s, items[s.item_id])

\* ------------------------------------------------------------------------
\* POST /drop/simulate
\* ------------------------------------------------------------------------

MAX_KILLS_PER_SIM == 1000000

\* The values "kills" can have when the while loop of one simulation ends:
\* rng.random() is in [0, 1), so a draw never succeeds for p <= 0 and always
\* succeeds for p >= 1.
KillsOutcomes(p_final) ==
    IF p_final <= 0 THEN {MAX_KILLS_PER_SIM}
    ELSE IF p_final >= Pct(100) THEN {1}
    ELSE 1..MAX_KILLS_PER_SIM

\* list.sort() on a list of integers.
RECURSIVE InsertSorted(_, _)
InsertSorted(sorted, x) ==
    IF sorted = <<>> THEN <<x>>
    ELSE IF x < Head(sorted) THEN <<x>> \o sorted
    ELSE <<Head(sorted)>> \o InsertSorted(Tail(sorted), x)

RECURSIVE SortInts(_)
SortInts(seq) ==
    IF seq = <<>> THEN <<>>
    ELSE InsertSorted(SortInts(SubSeq(seq, 1, Len(seq) - 1)), seq[Len(seq)])

RECURSIVE SumSeq(_)
SumSeq(seq) == IF seq = <<>> THEN 0 ELSE Head(seq) + SumSeq(Tail(seq))

\* idx = int(p / 100.0 * len(arr)); idx = min(max(0, idx), len(arr) - 1)
percentile(arr, p) ==
    arr[Min(Max(0, (p * Len(arr)) \div 100), Len(arr) - 1) + 1]

\* The response for one sorted list of kill counts.
SimulateStats(kills_to_get) ==
    [status |-> 200,
     simulations |-> Len(kills_to_get),
     avg_kills |-> [num |-> SumSeq(kills_to_get), den |-> Len(kills_to_get)],
     median_kills |-> kills_to_get[(Len(kills_to_get) \div 2) + 1],
     p10 |-> percentile(kills_to_get, 10),
     p25 |-> percentile(kills_to_get, 25),
     p75 |-> percentile(kills_to_get, 75),
     p90 |-> percentile(kills_to_get, 90)]

\* The responses drop_simulate can give: one per outcome of the random draws.
drop_simulate(env, s) ==
    LET calc == drop_calculate(env, s) IN
    IF calc.status # 200 THEN {calc}
    ELSE IF ~HasAttr(s, "mc_simulations") THEN {Unhandled("AttributeError")}
    ELSE LET sims == Max(1, s.mc_simulations)
         IN  {SimulateStats(SortInts(ks)) :
                 ks \in [1..sims -> KillsOutcomes(calc.p_final_percent)]}

\* ------------------------------------------------------------------------
\* GET /contents, /contents/{id}/levels, .../drops, .../monster-drops
\* ------------------------------------------------------------------------

list_contents(env) ==
    LET contents == env.DATA.contents IN
    [status |-> 200,
     contents |->
        [i \in 1..Len(contents) |->
            [content_id |-> contents[i].k,
             name |-> Get(contents[i].v, "name", contents[i].k),
             type |-> Get(contents[i].v, "type", "normal")]]]

\* result.sort(key=lambda x: int(x["level_id"])), a stable sort.
RECURSIVE InsertLevel(_, _)
InsertLevel(sorted, x) ==
    IF sorted = <<>> THEN <<x>>
    ELSE IF IntOfLevel[x.level_id] < IntOfLevel[Head(sorted).level_id]
         THEN <<x>> \o sorted
         ELSE <<Head(sorted)>> \o InsertLevel(Tail(sorted), x)

RECURSIVE SortLevels(_)
SortLevels(seq) ==
    IF seq = <<>> THEN <<>>
    ELSE InsertLevel(SortLevels(SubSeq(seq, 1, Len(seq) - 1)), seq[Len(seq)])

list_levels(env, content_id) ==
    LET contents == env.DATA.contents IN
    IF ~ODHas(contents, content_id)
    THEN HTTPError(404, "Content not found")
    ELSE
    LET levels == Get(ODGet(contents, content_id), "levels", <<>>) IN
    [status |-> 200,
     levels |->
        SortLevels([i \in 1..Len(levels) |->
            [level_id |-> levels[i].k,
             name |-> Get(levels[i].v, "name", "Level " \o levels[i].k)]])]

RECURSIVE ListDropsLoop(_, _)
ListDropsLoop(items, drop_ids) ==
    IF drop_ids = <<>> THEN <<>>
    ELSE LET item_id == Head(drop_ids)
             rest == ListDropsLoop(items, Tail(drop_ids))
         IN  IF item_id \in DOMAIN items
             THEN <<[item_id |-> item_id,
                     name |-> Get(items[item_id], "name", item_id),
                     base_drop_percent |->
                         Pct(Get(items[item_id], "base_drop_percent", 0))]>>
                  \o rest
             ELSE rest

list_drops(env, content_id, level_id) ==
    LET contents == env.DATA.contents IN
    IF ~ODHas(contents, content_id)
    THEN HTTPError(404, "Content not found")
    ELSE
    LET levels == Get(ODGet(contents, content_id), "levels", <<>>) IN
    IF ~ODHas(levels, level_id)
    THEN HTTPError(404, "Level not found")
    ELSE
    LET level == ODGet(levels, level_id) IN
    [status |-> 200,
     drops |-> ListDropsLoop(env.DATA.items,
                             IterDrops(Get(level, "drops", DropList(<<>>))))]

RECURSIVE MonsterRatesLoop(_, _, _)
MonsterRatesLoop(items, drops_data, monsters) ==
    IF drops_data = <<>> THEN <<>>
    ELSE LET item_id == Head(drops_data).k
             rest == MonsterRatesLoop(items, Tail(drops_data), monsters)
         IN  IF item_id \in DOMAIN items
             THEN <<[item_id |-> item_id,
                     item_name |-> Get(items[item_id], "name", item_id),
                     rates |-> [m \in ToSet(monsters) |->
                                  Pct(Get(Head(drops_data).v, m, 0))]]>>
                  \o rest
             ELSE rest

list_monster_drops(env, content_id, level_id) ==
    LET contents == env.DATA.contents IN
    IF ~ODHas(contents, content_id)
    THEN HTTPError(404, "Content not found")
    ELSE
    LET content == ODGet(contents, content_id) IN
    IF Get(content, "type", "None") # "monster_table"
    THEN HTTPError(400, "This content type doesn't support monster tables")
    ELSE
    LET levels == Get(content, "levels", <<>>) IN
    IF ~ODHas(levels, level_id)
    THEN HTTPError(404, "Level not found")
    ELSE
    LET level == ODGet(levels, level_id)
        monsters == Get(level, "monsters", <<>>)
        drops_data == Get(level, "drops", DropTable(<<>>))
    IN  IF drops_data.kind # "dict"
        THEN Unhandled("AttributeError")   \* a list has no .items()
        ELSE [status |-> 200,
              content_id |-> content_id,
              level_id |-> level_id,
              monsters |-> MonsterInfo(monsters),
              drops |-> MonsterRatesLoop(env.DATA.items, drops_data.od, monsters)]

\* ------------------------------------------------------------------------
\* Requests
\* ------------------------------------------------------------------------

BigTokens == {"calice", "calice2", "chicle", "chiclete"}

\* Tokens outside the big-consumable group that a batch request selects:
\* every general consumable, two of the final consumables (the loop treats
\* all five alike), and one token no batch table knows.
OtherTokens ==
    {"lata", "revitalizadora", "drop_pot", "fusion", "doador", "doador_rmt",
     "black", "ativador", "adv_1"}

\* A selection as the list the client sends; the handlers only build
\* set(consumables) from it, so one list per set is enough.
RECURSIVE ListOf(_)
ListOf(S) ==
    IF S = {} THEN <<>>
    ELSE LET x == CHOOSE y \in S : TRUE IN <<x>> \o ListOf(S \ {x})

BatchSelections ==
    {ListOf(b \cup o) : b \in SUBSET BigTokens,
                        o \in {s \in SUBSET OtherTokens : Cardinality(s) <= MaxOther}}

GeneralModsInputs ==
    {EmptyDict,
     [dominio_reputation |-> 10],
     [dominio_reputation |-> 10, malus |-> -150, lata |-> 5, consumable_big |-> 7]}

FinalModsInputs ==
    {EmptyDict, [guild |-> 50, final_black |-> 1]}

CalcAllContexts ==
    {<<"dominio", "1">>, <<"campo", "1">>, <<"campo", "7">>, <<"arena", "1">>}

\* The bodies of POST /drop/calculate-all, as BatchCalculateRequest parses them.
CalcAllRequests ==
    {[endpoint |-> "calculate-all", content_id |-> c[1], level_id |-> c[2],
      general_mods |-> g, final_mods |-> f, consumables |-> sel] :
        c \in CalcAllContexts, g \in GeneralModsInputs, f \in FinalModsInputs,
        sel \in BatchSelections}

MonsterContexts ==
    {<<"dominio", "1">>, <<"torre", "1">>, <<"campo", "1">>,
     <<"torre", "7">>, <<"arena", "1">>}

\* The bodies of POST /drop/calculate-monster-table.
MonsterTableRequests ==
    {[endpoint |-> "calculate-monster-table", content_id |-> c[1],
      level_id |-> c[2], general_mods |-> g, final_mods |-> f,
      consumables |-> sel] :
        c \in MonsterContexts, g \in GeneralModsInputs, f \in FinalModsInputs,
        sel \in BatchSelections}

\* Tokens a single-item request selects: mastery tiers of the three families,
\* one big consumable and one final consumable.
ScenarioTokens ==
    {"adv_1", "adv_2", "adv_4", "birth_2", "birth_3", "reborn_1", "reborn_5",
     "calice", "black"}

ScenarioSelections ==
    {ListOf(sel) : sel \in {t \in SUBSET ScenarioTokens : Cardinality(t) <= MaxOther}}

ItemInputs == {"eye", "crown", "dust", "ghost"}

NumKillsInputs == {0, 3}

SimulationsInputs == {0, 2}

\* The JSON bodies a client posts to /drop/calculate.
CalculateBodies ==
    {[endpoint |-> "calculate", item_id |-> i, num_kills |-> n,
      general_mods |-> g, final_mods |-> f, consumables |-> sel] :
        i \in ItemInputs, n \in NumKillsInputs, g \in GeneralModsInputs,
        f \in FinalModsInputs, sel \in ScenarioSelections}

\* The JSON bodies a client posts to /drop/simulate.
SimulateBodies ==
    {[endpoint |-> "simulate", item_id |-> i, num_kills |-> n,
      mc_simulations |-> m, general_mods |-> g, final_mods |-> f,
      consumables |-> sel] :
        i \in ItemInputs, n \in NumKillsInputs, m \in SimulationsInputs,
        g \in GeneralModsInputs, f \in FinalModsInputs,
        sel \in ScenarioSelections}

ContentInputs == {"dominio", "torre", "campo", "arena"}

LevelInputs == {"1", "2", "10", "7"}

\* ------------------------------------------------------------------------
\* The state machine: one action per endpoint, and the delivery of the
\* response, after which the request-local objects are gone.
\* ------------------------------------------------------------------------

Init ==
    /\ DATA = DATA0
    /\ BIG_CONS = BIG_CONS0
    /\ GENERAL_CONS = GENERAL_CONS0
    /\ FINAL_CONS = FINAL_CONS0
    /\ pc = "idle"
    /\ request = NoRequest
    /\ response = NoResponse
    /\ served = FALSE

\* CalculateAll writing consumable_big into the shared table GENERAL_CONS
\* instead of the request's own copy of general_mods.
CalculateAll_writes_shared_table ==
    /\ pc = "idle"
    /\ \E req \in CalcAllRequests :
          /\ request' = req
          /\ response' = calculate_all_drops(Env, req)
          /\ GENERAL_CONS' = AddBig(Env, GENERAL_CONS, ToSet(req.consumables))
    /\ pc' = "done"
    /\ UNCHANGED <<DATA, BIG_CONS, FINAL_CONS, served>>

CalculateAll ==
    /\ pc = "idle"
    /\ \E req \in CalcAllRequests :
          /\ request' = req
          /\ response' = calculate_all_drops(Env, req)
    /\ pc' = "done"
    /\ UNCHANGED <<DATA, BIG_CONS, GENERAL_CONS, FINAL_CONS, served>>

CalculateMonsterTable ==
    /\ pc = "idle"
    /\ \E req \in MonsterTableRequests :
          /\ request' = req
          /\ response' = calculate_monster_table(Env, req)
    /\ pc' = "done"
    /\ UNCHANGED <<DATA, BIG_CONS, GENERAL_CONS, FINAL_CONS, served>>

DropCalculate ==
    /\ pc = "idle"
    /\ \E body \in CalculateBodies :
          /\ request' = body
          /\ response' = drop_calculate(Env, ParseScenario(body))
    /\ pc' = "done"
    /\ UNCHANGED <<DATA, BIG_CONS, GENERAL_CONS, FINAL_CONS, served>>

DropSimulate ==
    /\ pc = "idle"
    /\ \E body \in SimulateBodies :
          /\ request' = body
          /\ response' \in drop_simulate(Env, ParseScenario(body))
    /\ pc' = "done"
    /\ UNCHANGED <<DATA, BIG_CONS, GENERAL_CONS, FINAL_CONS, served>>

ListContents ==
    /\ pc = "idle"
    /\ request' = [endpoint |-> "contents"]
    /\ response' = list_contents(Env)
    /\ pc' = "done"
    /\ UNCHANGED <<DATA, BIG_CONS, GENERAL_CONS, FINAL_CONS, served>>

ListLevels ==
    /\ pc = "idle"
    /\ \E c \in ContentInputs :
          /\ request' = [endpoint |-> "levels", content_id |-> c]
          /\ response' = list_levels(Env, c)
    /\ pc' = "done"
    /\ UNCHANGED <<DATA, BIG_CONS, GENERAL_CONS, FINAL_CONS, served>>

ListDrops ==
    /\ pc = "idle"
    /\ \E c \in ContentInputs, l \in LevelInputs :
          /\ request' = [endpoint |-> "drops", content_id |-> c, level_id |-> l]
          /\ response' = list_drops(Env, c, l)
    /\ pc' = "done"
    /\ UNCHANGED <<DATA, BIG_CONS, GENERAL_CONS, FINAL_CONS, served>>

ListMonsterDrops ==
    /\ pc = "idle"
    /\ \E c \in ContentInputs, l \in LevelInputs :
          /\ request' = [endpoint |-> "monster-drops", content_id |-> c,
                         level_id |-> l]
          /\ response' = list_monster_drops(Env, c, l)
    /\ pc' = "done"
    /\ UNCHANGED <<DATA, BIG_CONS, GENERAL_CONS, FINAL_CONS, served>>

Deliver ==
    /\ pc = "done"
    /\ pc' = "idle"
    /\ request' = NoRequest
    /\ response' = NoResponse
    /\ served' = TRUE
    /\ UNCHANGED <<DATA, BIG_CONS, GENERAL_CONS, FINAL_CONS>>

Next ==
    \/ ListContents
    \/ ListLevels
    \/ ListDrops
    \/ ListMonsterDrops
    \/ CalculateAll
    \/ CalculateMonsterTable
    \/ DropCalculate
    \/ DropSimulate
    \/ Deliver

Spec == Init /\ [][Next]_vars

\* ------------------------------------------------------------------------
\* Vocabulary of the properties
\* ------------------------------------------------------------------------

\* The module globals as they are after start-up.
Env0 == [DATA |-> DATA0, BIG_CONS |-> BIG_CONS0,
         GENERAL_CONS |-> GENERAL_CONS0, FINAL_CONS |-> FINAL_CONS0]

Done == pc = "done"

IsBatch == request.endpoint \in {"calculate-all", "calculate-monster-table"}

IsCalculation == IsBatch \/ request.endpoint = "calculate"

Selected == ToSet(request.consumables)

\* The response of a batch endpoint to req, with the globals env.
BatchResponse(env, req) ==
    IF req.endpoint = "calculate-all" THEN calculate_all_drops(env, req)
    ELSE calculate_monster_table(env, req)

\* req with the tokens toks taken out of the selection.
WithoutTokens(req, toks) ==
    [req EXCEPT !.consumables = ListOf(ToSet(req.consumables) \ toks)]

\* req with the key k taken out of the caller's general_mods.
WithoutGeneralKey(req, k) ==
    [req EXCEPT !.general_mods =
        [x \in (DOMAIN req.general_mods) \ {k} |-> req.general_mods[x]]]

\* The (base, final) percentage pairs a successful calculation response reports.
ReportedFinals(req, resp) ==
    IF req.endpoint = "calculate-all"
    THEN {[base |-> resp.drops[i].base_drop_percent,
           final |-> resp.drops[i].p_final_percent] : i \in 1..Len(resp.drops)}
    ELSE IF req.endpoint = "calculate-monster-table"
    THEN UNION {{resp.drops[i].calculated_rates[m] :
                    m \in DOMAIN resp.drops[i].calculated_rates} :
                i \in 1..Len(resp.drops)}
    ELSE {[base |-> resp.p_base_percent, final |-> resp.p_final_percent],
          [base |-> Pct(2), final |-> resp.drop_florzinha_percent]}

\* ------------------------------------------------------------------------
\* C1
\* ------------------------------------------------------------------------

\* C1: every final percentage a calculation endpoint returns for a base
\* percentage of at most 90 lies in [0, 90], whatever the signed bonuses.
C1_FinalWithin0To90 ==
    (Done /\ IsCalculation /\ response.status = 200) =>
        \A e \in ReportedFinals(request, response) :
            e.base <= Pct(90) => (0 <= e.final /\ e.final <= Pct(90))

\* ------------------------------------------------------------------------
\* C2
\* ------------------------------------------------------------------------

\* C2: every final percentage a calculation returns lies in [0, 100], for
\* every base percentage in [0, 100], those between 90 and 100 included.
C2_FinalWithin0To100 ==
    (Done /\ IsCalculation /\ response.status = 200) =>
        \A e \in ReportedFinals(request, response) :
            (0 <= e.base /\ e.base <= Pct(100)) =>
                (0 <= e.final /\ e.final <= Pct(100))

\* ------------------------------------------------------------------------
\* C3
\* ------------------------------------------------------------------------

\* The general tokens the claim takes to add nothing: lata and revitalizadora
\* with any big consumable, drop_pot with calice.
SuppressedAnyBig(sel) ==
    (IF sel \cap BigTokens # {} THEN {"lata", "revitalizadora"} ELSE {})
    \cup (IF "calice" \in sel THEN {"drop_pot"} ELSE {})

\* The same with lata and revitalizadora suppressed by calice or calice2 only.
SuppressedCalice(sel) ==
    (IF {"calice", "calice2"} \cap sel # {}
     THEN {"lata", "revitalizadora"} ELSE {})
    \cup (IF "calice" \in sel THEN {"drop_pot"} ELSE {})

\* With suppressed the tokens taken to add nothing: B_general is that of the
\* request without them, and every other selected general token contributes
\* its table value (in place of a caller-supplied entry of the same name).
SuppressionRule(suppressed) ==
    (Done /\ IsBatch /\ response.status = 200) =>
        /\ response.B_general_percent =
              BatchResponse(Env, WithoutTokens(request, suppressed))
                  .B_general_percent
        /\ \A t \in (Selected \cap DOMAIN GENERAL_CONS0) \ suppressed :
              response.B_general_percent =
                  BatchResponse(Env,
                      WithoutGeneralKey(WithoutTokens(request, {t}), t))
                      .B_general_percent
                  + GENERAL_CONS0[t]

\* C3 as stated: lata and revitalizadora add nothing to B_general when any
\* token of the big-consumable group is selected, drop_pot adds nothing
\* exactly when calice is selected, and the other selected general tokens
\* are always added.
C3_SuppressedByAnyBig == SuppressionRule(SuppressedAnyBig(Selected))

\* C3 amended: lata and revitalizadora add nothing to B_general when calice
\* or calice2 is selected (with chicle or chiclete alone they are added),
\* drop_pot adds nothing exactly when calice is selected, and every other
\* selected general token is added.
C3_SuppressedByCalice == SuppressionRule(SuppressedCalice(Selected))

\* A batch response for calice2 with lata (suppressed) and drop_pot (added).
C3_Witness ==
    /\ Done /\ IsBatch /\ response.status = 200
    /\ {"calice2", "lata", "drop_pot"} \subseteq Selected
    /\ "calice" \notin Selected
    /\ request.general_mods = EmptyDict
    /\ response.B_general_percent = 240 + 25

\* ------------------------------------------------------------------------
\* C4
\* ------------------------------------------------------------------------

\* The selected big-consumable token of the highest value.
HighestBig(sel) ==
    CHOOSE t \in sel \cap BigTokens :
        \A u \in sel \cap BigTokens : BIG_CONS0[u] <= BIG_CONS0[t]

\* C4: with two or more big-consumable tokens selected, B_general equals
\* that of the same request with only the highest-valued of them selected.
C4_ExclusiveGroupMax ==
    (Done /\ IsBatch /\ response.status = 200
        /\ Cardinality(Selected \cap BigTokens) >= 2) =>
        response.B_general_percent =
            BatchResponse(Env,
                WithoutTokens(request, BigTokens \ {HighestBig(Selected)}))
                .B_general_percent

\* A batch response for chicle and chiclete together with lata.
C4_Witness ==
    /\ Done /\ IsBatch /\ response.status = 200
    /\ Selected = {"chicle", "chiclete", "lata"}
    /\ request.general_mods = EmptyDict
    /\ response.B_general_percent = 200 + 20

\* ------------------------------------------------------------------------
\* C5
\* ------------------------------------------------------------------------

\* C5: a batch request for a content other than "dominio" is answered as the
\* same request without dominio_reputation in general_mods; for "dominio" the
\* supplied value is part of B_general.
C5_ReputationGating ==
    (Done /\ IsBatch /\ "dominio_reputation" \in DOMAIN request.general_mods) =>
        LET omitted == BatchResponse(Env,
                           WithoutGeneralKey(request, "dominio_reputation"))
        IN  IF request.content_id # "dominio"
            THEN response = omitted
            ELSE response.status = 200 =>
                    response.B_general_percent =
                        omitted.B_general_percent
                        + request.general_mods["dominio_reputation"]

\* A monster-table response for "torre" to a request that supplies the bonus.
C5_Witness ==
    /\ Done /\ request.endpoint = "calculate-monster-table"
    /\ request.content_id = "torre" /\ response.status = 200
    /\ request.general_mods = [dominio_reputation |-> 10]
    /\ Selected = {"fusion"}
    /\ response.B_general_percent = 25

\* ------------------------------------------------------------------------
\* C6
\* ------------------------------------------------------------------------

\* C6: the single-item calculation of a catalog item completes with a result
\* and never raises; undefined mean and median are returned as null.
C6_SingleItemNeverRaises ==
    (Done /\ request.endpoint = "calculate"
        /\ request.item_id \in DOMAIN DATA.items) =>
        /\ response.status = 200
        /\ response.p_final_percent <= 0 =>
              /\ response.mean_kills_for_one = None
              /\ response.median_kills_for_50pct = None

\* ------------------------------------------------------------------------
\* C7, C8
\* ------------------------------------------------------------------------

\* The final percentage the formulas of the single-item calculation give for
\* the body of a request.
FormulaFinal(body) ==
    LET p_base == Pct(Get(DATA.items[body.item_id], "base_drop_percent", 0))
    IN  apply_caps(p_base,
            Final(Inter(p_base, SumValues(ScenarioGeneralMods(Env, body))),
                  SumValues(ScenarioFinalMods(Env, body))))

\* Every simulation of the answered request recorded k trials.
AllSimulationsTook(k) ==
    /\ response.status = 200
    /\ response.avg_kills.num = k * response.avg_kills.den
    /\ response.median_kills = k
    /\ response.p10 = k /\ response.p25 = k
    /\ response.p75 = k /\ response.p90 = k

\* C7: a simulate request whose final probability is 0 terminates with every
\* simulation at exactly MAX_KILLS_PER_SIM trials.
C7_CeilingAtZero ==
    (Done /\ request.endpoint = "simulate"
        /\ request.item_id \in DOMAIN DATA.items
        /\ FormulaFinal(request) = 0) =>
        AllSimulationsTook(MAX_KILLS_PER_SIM)

\* C8: a simulate request whose final probability is 1.0 ends every simulation
\* after 1 trial; the mean, the median and the percentiles are all 1.
C8_OneTrialAtCertainty ==
    (Done /\ request.endpoint = "simulate"
        /\ request.item_id \in DOMAIN DATA.items
        /\ FormulaFinal(request) = Pct(100)) =>
        AllSimulationsTook(1)

\* ------------------------------------------------------------------------
\* C9
\* ------------------------------------------------------------------------

\* C9: the catalog and the static tables are unchanged after any sequence of
\* requests, and a calculation's response is the one its own input gives.
C9_ReadOnlyAndRequestLocal ==
    /\ DATA = DATA0
    /\ BIG_CONS = BIG_CONS0
    /\ GENERAL_CONS = GENERAL_CONS0
    /\ FINAL_CONS = FINAL_CONS0
    /\ (Done /\ IsBatch) => response = BatchResponse(Env0, request)
    /\ (Done /\ request.endpoint = "calculate") =>
          response = drop_calculate(Env0, ParseScenario(request))

\* A batch calculation answered after an earlier request was served, with
\* bonuses from every table.
C9_Witness ==
    /\ Done /\ served /\ IsBatch /\ response.status = 200
    /\ {"calice", "fusion", "black"} \subseteq Selected
    /\ response.B_general_percent >= 265 + 25
    /\ response.B_final_percent >= 6

\* ------------------------------------------------------------------------
\* C10
\* ------------------------------------------------------------------------

\* The value of the first tier of table, in declared order, that is selected;
\* 0 when none is.
FirstSelectedTier(table, sel) ==
    IF \A i \in 1..Len(table) : table[i].k \notin sel THEN 0
    ELSE table[CHOOSE i \in 1..Len(table) :
                  /\ table[i].k \in sel
                  /\ \A j \in 1..(i - 1) : table[j].k \notin sel].v

\* C10: in a single-item calculation each mastery family adds to the final
\* aggregate the value of its first selected tier in declared order, and
\* nothing when no tier of it is selected.
C10_FirstDeclaredTier ==
    (Done /\ request.endpoint = "calculate"
        /\ request.item_id \in DOMAIN DATA.items) =>
        /\ response.status = 200
        /\ response.B_final_percent =
              SumValues(AddFinal(Env, request.final_mods, Selected))
              + FirstSelectedTier(ADV_MASTERY, Selected)
              + FirstSelectedTier(BIRTH_MASTERY, Selected)
              + FirstSelectedTier(REBORN_MASTERY, Selected)

====
